---- MODULE Spec2Model ----
(***************************************************************************)
(* A model of contributions.py: main -> summarize_contributions ->         *)
(* get_repositories -> name filter -> get_commits per repository (cursor   *)
(* pagination, bounded back-off on unready responses) -> fold of the       *)
(* commits into the ledger -> ranked print-out and authors.json.           *)
(*                                                                         *)
(* The GitHub endpoint is the environment: it holds the organization's     *)
(* repository list and a commit history per repository, serves them in     *)
(* pages of its own choosing and may answer a history request with an      *)
(* unready document or make the transport raise.                           *)
(***************************************************************************)
EXTENDS Integers, Sequences, FiniteSets, TLC

\* ------------------------------------------------------------------ bounds

\* Largest number of nodes the simulated endpoint puts on one page.
MaxPage == 2

\* Largest number of commits in one repository's history.
MaxCommits == 2

\* Clock resolution: ticks in one second.
TicksPerSecond == 6

\* The ceiling of section 4.5 of the specification (requests per second);
\* the source states none.
RateCeiling == 5

\* ------------------------------------------------------- program constants

\* range(1, 8): the first value of the attempt counter.
FirstAttempt == 1

\* range(1, 8): the exclusive end of the attempt counter.
RangeStop == 8

\* duration = 2 ** number
BackoffBase == 2

\* if number == 8: the value that stands for a loop that never broke.
Sentinel == 8

\* ---------------------------------------------------------------- helpers

Min(a, b) == IF a < b THEN a ELSE b

RECURSIVE Pow(_, _)
Pow(b, n) == IF n = 0 THEN 1 ELSE b * Pow(b, n - 1)

Range(s) == {s[i] : i \in DOMAIN s}

EmptyMap == [x \in {} |-> 0]

\* All sequences of at most n distinct elements of S.
RECURSIVE DistinctSeqs(_, _)
DistinctSeqs(S, n) ==
    IF n = 0 THEN {<<>>}
    ELSE LET shorter == DistinctSeqs(S, n - 1)
             longest == {p \in shorter \X S : Len(p[1]) = n - 1 /\ p[2] \notin Range(p[1])}
         IN  shorter \cup {Append(p[1], p[2]) : p \in longest}

\* ------------------------------------------------------- the remote's data

\* Repository names in ascending order; "u" names no repository and is used
\* in allow and deny lists only.
NameOrder == <<"a", "b", "c", "u">>

RepoNames == {"a", "b", "c"}

NoUser == "none"

\* Commit(oid, additions, deletions, author(name, email, user)).
Commit(sha, email, nm, login, add, del) ==
    [sha |-> sha, email |-> email, name |-> nm, login |-> login,
     additions |-> add, deletions |-> del]

\* The commits of the pool, oldest first.
PoolOrder == <<Commit("s1", "x@x", "X", "xl", 10, 2),
               Commit("s2", "y", "Y", NoUser, 5, 0),
               Commit("s3", "x@x", "X2", NoUser, 3, 1)>>

\* The commits the histories are made of.
CommitPool == Range(PoolOrder)

\* sorted(names): the names of S in ascending order.
Sorted(S) == SelectSeq(NameOrder, LAMBDA n : n \in S)

\* A page of a listing: nodes, pageInfo.hasNextPage, pageInfo.endCursor and
\* totalCount.  A cursor is the number of items that precede the next page;
\* a request without a cursor carries 0.
NoCursor == 0

\* The page the endpoint serves from `coll` after `cursor`, `size` nodes at
\* most.  fault = "truncated" ends the listing early, fault = "miscount"
\* reports a total that is off by one.
ServePage(coll, cursor, size, fault) ==
    LET last  == Min(cursor + size, Len(coll))
        nodes == SubSeq(coll, cursor + 1, last)
    IN  [nodes      |-> nodes,
         has_next   |-> (fault # "truncated") /\ last < Len(coll),
         end_cursor |-> last,
         total      |-> IF fault = "miscount" THEN Len(coll) + 1 ELSE Len(coll)]

Faults == {"none", "truncated", "miscount"}


\* The documents get_commits can receive.  A JSON null is Null, a JSON object
\* is Obj(f) with f its members.
Null == [t |-> "null"]

Obj(f) == [t |-> "obj", f |-> f]

NoMembers == [k \in {} |-> Null]

\* What the endpoint answers to a history request: the transport raises
\* ("error"), or the document lacks the branch at one of four places, or it
\* carries a page of the history.
Kinds == {"ready", "repo_absent", "repo_null", "branch_absent", "branch_null", "error"}

Doc(kind, page) ==
    CASE kind = "repo_absent"   -> Obj(NoMembers)
      [] kind = "repo_null"     -> Obj("repository" :> Null)
      [] kind = "branch_absent" -> Obj("repository" :> Obj(NoMembers))
      [] kind = "branch_null"   -> Obj("repository" :> Obj("defaultBranchRef" :> Null))
      [] OTHER                  -> Obj("repository" :>
                                       Obj("defaultBranchRef" :> Obj("history" :> page)))

\* Round-trip times of one request, in ticks: a fast answer or one that takes
\* a second or longer.
Latencies == {1, TicksPerSecond}

\* The histories a repository can have: 1..MaxCommits distinct commits.
Histories == DistinctSeqs(CommitPool, MaxCommits) \ {<<>>}

\* The histories that begin with the oldest commit and follow the pool's order.
Prefixes == {SubSeq(PoolOrder, 1, n) : n \in 1..Min(MaxCommits, Len(PoolOrder))}

\* The endpoints a run can meet.  Each names the answers the endpoint may
\* give, the faults of its pages, its round-trip times and the histories its
\* repositories may have:
\*   "faulty"  any answer, any fault, fast and slow round trips, a history
\*             that is a prefix of the pool;
\*   "sound"   ready answers and complete pages only, slow round trips, any
\*             history;
\*   "plain"   as "sound", every history being the two oldest commits.
Envs == {"faulty", "sound", "plain"}

EnvKinds(e) == IF e = "faulty" THEN Kinds ELSE {"ready"}

EnvListKinds(e) == IF e = "faulty" THEN {"ready", "error"} ELSE {"ready"}

EnvFaults(e) == IF e = "faulty" THEN Faults ELSE {"none"}

EnvLatencies(e) == IF e = "faulty" THEN Latencies ELSE {TicksPerSecond}

EnvHistories(e) ==
    CASE e = "faulty" -> Prefixes
      [] e = "sound"  -> Histories
      [] OTHER        -> {SubSeq(PoolOrder, 1, 2)}

\* ------------------------------------------------------------------ state

VARIABLES
    orgRepos,    \* remote: the organization's repository names, in listing order
    env,         \* remote: what the endpoint is able to do in this run
    remoteHist,  \* remote: repository name -> its history, <<>> until materialized
    allow,       \* summarize_contributions: argument allow
    deny,        \* summarize_contributions: argument deny
    pc,          \* the statement the run is at
    error,       \* the exception that ended the run, "none" if none
    repos,       \* get_repositories: repos (pageInfo and totalCount of the last page)
    listed,      \* get_repositories: result; summarize_contributions: repos
    names,       \* summarize_contributions: names
    todo,        \* the names the generator of line 370 has not yet reached
    name,        \* get_commits: name
    retrieved,   \* the names get_commits was called with
    number,      \* get_commits: number
    inLoop,      \* get_commits: the for loop is between two iterations
    history,     \* get_commits: history (pageInfo and totalCount of the last page)
    commits,     \* get_commits: commits; summarize_contributions: commits
    k,           \* summarize_contributions: commits[1..k] are folded
    fragments,   \* the lists get_commits returned, in the order they were folded
    result,      \* summarize_contributions: result
    keys,        \* the keys of result in insertion order
    authors,     \* summarize_contributions: authors
    output,      \* main: the lines printed
    written,     \* main: authors.json was written
    request,     \* the variable_values of the last request
    resp,        \* what the endpoint answered to it
    attempts,    \* requests issued for the page being retrieved
    unready,     \* unready answers received for the page being retrieved
    slept,       \* seconds slept after the last answer
    sleeps,      \* the sleeps made for the page being retrieved
    stamps,      \* ages in ticks, at the last request, of the requests of the second before it
    since        \* ticks from the last request to now, TicksPerSecond if more

remoteVars == <<orgRepos, env, remoteHist>>
argVars    == <<allow, deny>>
listVars   == <<repos, listed>>
loopVars   == <<number, inLoop, history, commits>>
foldVars   == <<k, fragments, result, keys, authors>>
mainVars   == <<output, written>>
wireVars   == <<request, resp, attempts, unready, slept, sleeps, stamps, since>>

vars == <<orgRepos, env, remoteHist, allow, deny, pc, error, repos, listed, names,
          todo, name, retrieved, number, inLoop, history, commits, k, fragments, result, keys,
          authors, output, written, request, resp, attempts, unready, slept, sleeps,
          stamps, since>>

\* ------------------------------------------------------------ the transport

\* execute: client.execute raises on a transport or HTTP error, and execute
\* lets the exception through.
Raises(kind) == kind = "error"

\* The exception is swallowed and the run goes on to its print-out.
UnwindToPrint(exception) == "print"

\* No statement of get_repositories, get_commits, summarize_contributions or
\* main catches an exception: whatever is raised ends the run.
Unwind(exception) == "failed"

\* The ages of the requests of the last second, d ticks later.
Aged(ages, d) == SelectSeq([i \in DOMAIN ages |-> ages[i] + d],
                           LAMBDA a : a < TicksPerSecond)

\* A request is issued now: the requests of the second that ends now.
Issued == Append(Aged(stamps, since), 0)

\* Ticks that pass between a request and the next statement after it: the
\* round trip and the sleep that follows it.
Elapsed(lat, seconds) == Min(lat + seconds * TicksPerSecond, TicksPerSecond)

\* ------------------------------------------------------- get_repositories

\* The page replaces the list instead of extending it.
ExtendOverwrites(list, nodes) == nodes

\* result.extend(repos.nodes), commits.extend(history.nodes)
Extend(list, nodes) == list \o nodes

\* The assertion tolerates missing items.
CountAtMost(list, total) == Len(list) <= total

\* assert len(result) == repos.total, assert len(commits) == history.total
CountMatches(list, total) == Len(list) = total

PageInfo(page) == [has_next |-> page.has_next, end_cursor |-> page.end_cursor,
                   total |-> page.total]

\* One request of get_repositories with the cursor `cursor`, and what follows
\* the answer up to the next request: the page is appended and, after the last
\* page, the count is asserted and the list returned.
ListRequest(cursor, before) ==
    \E kind \in EnvListKinds(env), lat \in EnvLatencies(env) :
    \E size \in IF kind = "ready" THEN 1..MaxPage ELSE {1},
       fault \in IF kind = "ready" THEN EnvFaults(env) ELSE {"none"} :
        LET page == ServePage(orgRepos, cursor, size, fault)
            list == Extend(before, page.nodes)
        IN  /\ request' = [op |-> "repositories", name |-> "", cursor |-> cursor]
            /\ resp' = kind
            /\ attempts' = 1
            /\ unready' = 0
            /\ slept' = 0
            /\ sleeps' = <<>>
            /\ stamps' = Issued
            /\ since' = Elapsed(lat, 0)
            /\ IF Raises(kind)
               THEN /\ pc' = Unwind("TransportError")
                    /\ error' = "TransportError"
                    /\ UNCHANGED listVars
               ELSE /\ repos' = PageInfo(page)
                    /\ listed' = list
                    /\ pc' = IF page.has_next THEN "repos_next"
                             ELSE IF CountMatches(list, page.total) THEN "filter"
                             ELSE Unwind("AssertionError")
                    /\ error' = IF ~page.has_next /\ ~CountMatches(list, page.total)
                                THEN "AssertionError" ELSE "none"

\* Lines 138-142: the first page.
ReposFirst ==
    /\ pc = "repos_first"
    /\ ListRequest(NoCursor, <<>>)
    /\ UNCHANGED <<remoteVars, argVars, names, todo, name, retrieved, loopVars, foldVars,
                   mainVars>>

\* Lines 143-159: a later page, from repos.page_info.end_cursor.
ReposNext ==
    /\ pc = "repos_next"
    /\ ListRequest(repos.end_cursor, listed)
    /\ UNCHANGED <<remoteVars, argVars, names, todo, name, retrieved, loopVars, foldVars,
                   mainVars>>

\* ------------------------------------------------- summarize_contributions

\* The deny list is looked at only when there is no allow list.
SelectNamesEither(listing, allowed, denied) ==
    LET all == Range(listing)
    IN  IF allowed # {} THEN all \cap allowed
        ELSE IF denied # {} THEN all \ denied
        ELSE all

\* The deny list toggles membership instead of removing.
SelectNamesToggle(listing, allowed, denied) ==
    LET all  == Range(listing)
        kept == IF allowed # {} THEN all \cap allowed ELSE all
    IN  IF denied # {} THEN (kept \ denied) \cup (denied \ kept) ELSE kept

\* Lines 362-366: names = {r.name for r in repos}, intersected with allow if
\* allow is not empty, less deny if deny is not empty.
SelectNames(listing, allowed, denied) ==
    LET all  == Range(listing)
        kept == IF allowed # {} THEN all \cap allowed ELSE all
    IN  IF denied # {} THEN kept \ denied ELSE kept

\* Lines 359-370: the filter, the empty ledger, and the generator's first step.
Filter ==
    /\ pc = "filter"
    /\ names' = SelectNames(listed, allow, deny)
    /\ result' = EmptyMap
    /\ keys' = <<>>
    /\ authors' = EmptyMap
    /\ LET order == Sorted(names')
       IN  IF order = <<>>
           THEN /\ pc' = "print"
                /\ UNCHANGED <<name, todo>>
           ELSE /\ pc' = "commits_first"
                /\ name' = Head(order)
                /\ todo' = Tail(order)
    /\ UNCHANGED <<remoteVars, argVars, error, listVars, retrieved, loopVars, k,
                   fragments, mainVars, wireVars>>

\* ------------------------------------------------------------ get_commits

\* dict.get(key, default) on a JSON object.
Get(d, key, default) == IF key \in DOMAIN d.f THEN d.f[key] ELSE default

\* Lines 276 and 298: data.get("repository", {}).get("defaultBranchRef") is None.
\* A null has no get: the expression raises AttributeError.
Classify(data) ==
    LET repository == Get(data, "repository", Obj(NoMembers))
    IN  IF repository.t # "obj" THEN "attribute_error"
        ELSE IF Get(repository, "defaultBranchRef", Null) = Null THEN "unready"
        ELSE "ready"

\* A transport error is taken for an unready answer.
OutcomeRetriesErrors(kind, data) == IF Raises(kind) THEN "unready" ELSE Classify(data)

\* Lines 275-276 and 294-298: execute raises, or the document is classified.
Outcome(kind, data) == IF Raises(kind) THEN "raise" ELSE Classify(data)

\* The sleep grows by two seconds per attempt.
BackoffLinear(n) == BackoffBase * n

\* Lines 277 and 299: duration = 2 ** number.
Backoff(n) == Pow(BackoffBase, n)

\* The loop of a later page goes on from the number the page before it ended
\* with.
AttemptNumberCarried(looping, n) ==
    IF looping \/ pc = "commits_next" THEN n + 1 ELSE FirstAttempt

\* Lines 274 and 293: for number in range(1, 8) gives 1 to the first iteration
\* of a loop and n + 1 to the one after iteration n.
AttemptNumber(looping, n) == IF looping THEN n + 1 ELSE FirstAttempt

\* for number in range(1, 8): there is an iteration after iteration n.
HasNextAttempt(n) == n + 1 < RangeStop

\* The check with the last value of the loop instead of the one after it.
LoopFailedAtLast(n) == n = Sentinel - 1

\* Lines 284 and 306: if number == 8.
LoopFailed(n) == n = Sentinel

\* The generator of line 370 moves on: get_commits of the next name, or the
\* return to main when no name is left.
Advance ==
    IF todo = <<>>
    THEN /\ pc' = "print"
         /\ UNCHANGED <<name, todo>>
    ELSE /\ pc' = "commits_first"
         /\ name' = Head(todo)
         /\ todo' = Tail(todo)

\* One iteration of a for loop of get_commits with the cursor `cursor`, and
\* what follows it up to the next request: the sleep after an unready answer;
\* after the loop, the check of number, the page appended to `before` and,
\* after the last page, the count asserted and the list returned.  The endpoint
\* materializes the history with its first ready answer.
PageRequest(cursor, before) ==
    \E kind \in EnvKinds(env), lat \in EnvLatencies(env) :
    \E size \in IF kind = "ready" THEN 1..MaxPage ELSE {1},
       fault \in IF kind = "ready" THEN EnvFaults(env) ELSE {"none"},
       coll \in IF remoteHist[name] # <<>> THEN {remoteHist[name]}
                ELSE IF kind = "ready" THEN EnvHistories(env)
                ELSE {<<>>} :
        LET n        == AttemptNumber(inLoop, number)
            page     == ServePage(coll, cursor, size, fault)
            outcome  == Outcome(kind, Doc(kind, page))
            again    == outcome = "unready" /\ HasNextAttempt(n)
            leftLoop == outcome = "ready" \/ (outcome = "unready" /\ ~HasNextAttempt(n))
            postErr  == IF ~leftLoop THEN "none"
                        ELSE IF LoopFailed(n) THEN "RuntimeError"
                        ELSE IF outcome # "ready" THEN "AttributeError"
                        ELSE "none"
            accepted == outcome = "ready" /\ postErr = "none"
            list     == Extend(before, page.nodes)
            last     == accepted /\ ~page.has_next
            err      == CASE outcome = "raise"           -> "TransportError"
                          [] outcome = "attribute_error" -> "AttributeError"
                          [] postErr # "none"            -> postErr
                          [] last /\ ~CountMatches(list, page.total) -> "AssertionError"
                          [] OTHER                       -> "none"
            duration == IF outcome = "unready" THEN Backoff(n) ELSE 0
        IN  /\ request' = [op |-> "commits", name |-> name, cursor |-> cursor]
            /\ retrieved' = retrieved \cup {name}
            /\ resp' = kind
            /\ attempts' = IF inLoop THEN attempts + 1 ELSE 1
            /\ unready' = (IF inLoop THEN unready ELSE 0)
                          + (IF outcome = "unready" THEN 1 ELSE 0)
            /\ slept' = duration
            /\ sleeps' = IF outcome = "unready"
                         THEN Append(IF inLoop THEN sleeps ELSE <<>>, duration)
                         ELSE IF inLoop THEN sleeps ELSE <<>>
            /\ stamps' = Issued
            /\ since' = Elapsed(lat, duration)
            /\ remoteHist' = IF kind = "ready" THEN [remoteHist EXCEPT ![name] = coll]
                             ELSE remoteHist
            /\ number' = n
            /\ inLoop' = again
            /\ error' = err
            /\ history' = IF accepted THEN PageInfo(page) ELSE history
            /\ commits' = IF accepted THEN list ELSE commits
            /\ fragments' = IF last /\ err = "none" THEN Append(fragments, list)
                            ELSE fragments
            /\ k' = IF last /\ err = "none" THEN 0 ELSE k
            /\ IF err # "none"
               THEN pc' = Unwind(err) /\ UNCHANGED <<name, todo>>
               ELSE IF ~accepted
               THEN UNCHANGED <<pc, name, todo>>
               ELSE IF page.has_next
               THEN pc' = "commits_next" /\ UNCHANGED <<name, todo>>
               ELSE IF list # <<>>
               THEN pc' = "fold" /\ UNCHANGED <<name, todo>>
               ELSE Advance

\* Lines 274-287: the first page, requested without a cursor.
CommitsFirst ==
    /\ pc = "commits_first"
    /\ PageRequest(NoCursor, <<>>)
    /\ UNCHANGED <<orgRepos, env, argVars, listVars, names, result, keys, authors,
                   mainVars>>

\* The later pages are requested without the cursor.
CommitsNextNoCursor ==
    /\ pc = "commits_next"
    /\ PageRequest(NoCursor, commits)
    /\ UNCHANGED <<orgRepos, env, argVars, listVars, names, result, keys, authors,
                   mainVars>>

\* Lines 288-309: a later page, from history.page_info.end_cursor.
CommitsNext ==
    /\ pc = "commits_next"
    /\ PageRequest(history.end_cursor, commits)
    /\ UNCHANGED <<orgRepos, env, argVars, listVars, names, result, keys, authors,
                   mainVars>>

\* ---------------------------------------------------------------- the fold

\* Only the added lines are counted.
AddAdditions(ledger, commit) ==
    LET old == IF commit.email \in DOMAIN ledger THEN ledger[commit.email] ELSE 0
    IN  (commit.email :> old + commit.additions) @@ ledger

\* The count is assigned instead of added.
AssignChanges(ledger, commit) ==
    (commit.email :> (commit.additions + commit.deletions)) @@ ledger

\* Line 373: result[email] += commit.additions + commit.deletions, on a
\* defaultdict(int).
AddChanges(ledger, commit) ==
    LET old == IF commit.email \in DOMAIN ledger THEN ledger[commit.email] ELSE 0
    IN  (commit.email :> old + (commit.additions + commit.deletions)) @@ ledger

\* Lines 368-373 over a list of commits: the totals after the commits of seq
\* are added to ledger, first to last.
RECURSIVE FoldFrom(_, _)
FoldFrom(ledger, seq) ==
    IF seq = <<>> THEN ledger
    ELSE FoldFrom(AddChanges(ledger, Head(seq)), Tail(seq))

\* dict.setdefault(key, set()).add(value)
SetDefaultAdd(d, key, value) ==
    (key :> ((IF key \in DOMAIN d THEN d[key] ELSE {}) \cup {value})) @@ d

\* The name replaces the names seen before it.
AddAuthorLastName(details, commit) ==
    LET named  == [x \in {"names"} |-> {commit.name}]
        auth   == IF commit.email \in DOMAIN details THEN details[commit.email]
                  ELSE [x \in {} |-> {}]
        kept   == IF "login" \in DOMAIN auth THEN ("login" :> auth["login"]) @@ named
                  ELSE named
        linked == IF commit.login # NoUser
                  THEN SetDefaultAdd(kept, "login", commit.login)
                  ELSE kept
    IN  (commit.email :> linked) @@ details

\* A record is kept for the commits of linked users only.
AddAuthorLinkedOnly(details, commit) ==
    LET auth   == IF commit.email \in DOMAIN details THEN details[commit.email]
                  ELSE [x \in {} |-> {}]
        named  == SetDefaultAdd(auth, "names", commit.name)
        linked == SetDefaultAdd(named, "login", commit.login)
    IN  IF commit.login # NoUser THEN (commit.email :> linked) @@ details
        ELSE details

\* The record of the email is made anew from each commit.
AddAuthorFresh(details, commit) ==
    LET named  == [x \in {"names"} |-> {commit.name}]
        linked == IF commit.login # NoUser
                  THEN SetDefaultAdd(named, "login", commit.login)
                  ELSE named
    IN  (commit.email :> linked) @@ details

\* Lines 374-377: the author's name, and login if the commit has a user, are
\* added to the record of the email.
AddAuthor(details, commit) ==
    LET auth   == IF commit.email \in DOMAIN details THEN details[commit.email]
                  ELSE [x \in {} |-> {}]
        named  == SetDefaultAdd(auth, "names", commit.name)
        linked == IF commit.login # NoUser
                  THEN SetDefaultAdd(named, "login", commit.login)
                  ELSE named
    IN  (commit.email :> linked) @@ details

\* Lines 371-377: the next commit of the list is folded; after the last one the
\* generator moves on.
FoldCommit ==
    /\ pc = "fold"
    /\ k < Len(commits)
    /\ LET commit == commits[k + 1]
       IN  /\ result' = AddChanges(result, commit)
           /\ keys' = IF commit.email \in DOMAIN result THEN keys
                      ELSE Append(keys, commit.email)
           /\ authors' = AddAuthor(authors, commit)
    /\ k' = k + 1
    /\ IF k + 1 < Len(commits)
       THEN UNCHANGED <<pc, name, todo>>
       ELSE Advance
    /\ UNCHANGED <<remoteVars, argVars, error, listVars, names, retrieved, loopVars,
                   fragments, mainVars, wireVars>>

\* ------------------------------------------------------------------- main

\* The sort without reverse=True: smallest count first.
RECURSIVE InsertRankedAscending(_, _)
InsertRankedAscending(ranked, item) ==
    IF ranked = <<>> THEN <<item>>
    ELSE IF Head(ranked).changes <= item.changes
    THEN <<Head(ranked)>> \o InsertRankedAscending(Tail(ranked), item)
    ELSE <<item>> \o ranked

\* sorted(..., key=itemgetter(1), reverse=True) is stable: an item goes behind
\* every item whose count is not smaller.
RECURSIVE InsertRanked(_, _)
InsertRanked(ranked, item) ==
    IF ranked = <<>> THEN <<item>>
    ELSE IF Head(ranked).changes >= item.changes
    THEN <<Head(ranked)>> \o InsertRanked(Tail(ranked), item)
    ELSE <<item>> \o ranked

RECURSIVE RankedFrom(_, _, _)
RankedFrom(ledger, order, ranked) ==
    IF order = <<>> THEN ranked
    ELSE RankedFrom(ledger, Tail(order),
                    InsertRanked(ranked, [user |-> Head(order),
                                          changes |-> ledger[Head(order)]]))

\* Line 429: the items of summary, largest count first.
Ranked(ledger, order) == RankedFrom(ledger, order, <<>>)

\* Lines 426-430: summarize_contributions has returned; one line per item.
PrintSummary ==
    /\ pc = "print"
    /\ output' = Ranked(result, keys)
    /\ pc' = "write"
    /\ UNCHANGED <<remoteVars, argVars, error, listVars, names, todo, name, retrieved,
                   loopVars, foldVars, written, wireVars>>

\* Lines 431-432: authors.json.
WriteAuthors ==
    /\ pc = "write"
    /\ written' = TRUE
    /\ pc' = "done"
    /\ UNCHANGED <<remoteVars, argVars, error, listVars, names, todo, name, retrieved,
                   loopVars, foldVars, output, wireVars>>

\* ------------------------------------------------------- the specification

\* The state main calls summarize_contributions in, for an organization with
\* the repositories `listing`.
Start(listing, endpoint, allowed, denied) ==
    /\ orgRepos = listing
    /\ env = endpoint
    /\ remoteHist = [n \in RepoNames |-> <<>>]
    /\ allow = allowed
    /\ deny = denied
    /\ pc = "repos_first"
    /\ error = "none"
    /\ repos = [has_next |-> FALSE, end_cursor |-> NoCursor, total |-> 0]
    /\ listed = <<>>
    /\ names = {}
    /\ todo = <<>>
    /\ name = ""
    /\ retrieved = {}
    /\ number = 0
    /\ inLoop = FALSE
    /\ history = [has_next |-> FALSE, end_cursor |-> NoCursor, total |-> 0]
    /\ commits = <<>>
    /\ k = 0
    /\ fragments = <<>>
    /\ result = EmptyMap
    /\ keys = <<>>
    /\ authors = EmptyMap
    /\ output = <<>>
    /\ written = FALSE
    /\ request = [op |-> "none", name |-> "", cursor |-> NoCursor]
    /\ resp = "none"
    /\ attempts = 0
    /\ unready = 0
    /\ slept = 0
    /\ sleeps = <<>>
    /\ stamps = <<>>
    /\ since = TicksPerSecond

Listings == {Sorted(S) : S \in SUBSET RepoNames \ {{}}}

\* Any organization, a faulty endpoint, no filter or one that drops "b".
Init ==
    \E listing \in Listings, denied \in {{}, {"b"}} :
        Start(listing, "faulty", {}, denied)

Next ==
    \/ ReposFirst
    \/ ReposNext
    \/ Filter
    \/ CommitsFirst
    \/ CommitsNext
    \/ FoldCommit
    \/ PrintSummary
    \/ WriteAuthors

Spec == Init /\ [][Next]_vars

\* The names an allow or deny list is made of.
FilterNames == Range(NameOrder)

\* Any organization and any pair of filters, a plain endpoint.
InitFilter ==
    \E listing \in Listings, allowed \in SUBSET FilterNames, denied \in SUBSET FilterNames :
        Start(listing, "plain", allowed, denied)

SpecFilter == InitFilter /\ [][Next]_vars

\* Any organization with any histories, a sound endpoint, no filter.
InitLedger ==
    \E listing \in Listings : Start(listing, "sound", {}, {})

SpecLedger == InitLedger /\ [][Next]_vars

\* ---------------------------------------------------------------- claims

\* range(1, 8) makes this many iterations at most.
MaxAttempts == RangeStop - FirstAttempt

\* The place of a name among the names the generator goes through.
RECURSIVE IndexOf(_, _)
IndexOf(seq, x) == IF seq = <<>> \/ Head(seq) = x THEN 1 ELSE 1 + IndexOf(Tail(seq), x)

\* get_commits has returned a list for the repository of the last request.
Returned == Len(fragments) >= IndexOf(Sorted(names), request.name)

\* The last answer was a ready page of a history.
ReadyCommits == request.op = "commits" /\ resp = "ready"

\* C1: when every one of the 7 attempts for a page of get_commits is answered
\* unready, the retrieval ends right after the 7th answer, with 7 requests
\* issued, with RuntimeError and without a list returned.
C1_ExhaustionRaisesRuntimeError ==
    (request.op = "commits" /\ unready = MaxAttempts) =>
        /\ pc = "failed"
        /\ error = "RuntimeError"
        /\ attempts = MaxAttempts
        /\ ~Returned

\* C2: a ready answer that follows k < 7 unready answers for the same page is
\* accepted after k retries: k + 1 requests and k sleeps for the page, no error
\* of the transport or of the back-off, and the page's nodes taken over, the
\* history standing behind them.
C2_ReadyAcceptedAfterKRetries ==
    ReadyCommits =>
        /\ unready < MaxAttempts
        /\ attempts = unready + 1
        /\ Len(sleeps) = unready
        /\ error \in {"none", "AssertionError"}
        /\ history.end_cursor > request.cursor
        /\ commits = SubSeq(remoteHist[request.name], 1, history.end_cursor)

C2_Witness ==
    /\ ReadyCommits
    /\ unready = MaxAttempts - 1
    /\ request.cursor > NoCursor
    /\ error = "none"

\* get_repositories has returned.
Listed == pc \notin {"repos_first", "repos_next"}
          /\ ~(pc = "failed" /\ request.op = "repositories")

\* C3: a list that get_repositories or get_commits returns is the remote
\* collection, every item once and in the order served; and when the last page
\* was served complete, with the right total, the list is returned.
C3_PaginationComplete ==
    /\ Listed => listed = orgRepos
    /\ \A i \in DOMAIN fragments : fragments[i] = remoteHist[Sorted(names)[i]]
    /\ (request.op = "repositories" /\ resp = "ready" /\ ~repos.has_next
            /\ repos.end_cursor = Len(orgRepos) /\ repos.total = Len(orgRepos))
        => (error = "none" /\ Listed)
    /\ (ReadyCommits /\ ~history.has_next
            /\ history.end_cursor = Len(remoteHist[request.name])
            /\ history.total = Len(remoteHist[request.name]))
        => (error = "none" /\ Returned)

C3_Witness ==
    /\ pc = "done"
    /\ Len(listed) = Cardinality(RepoNames)
    /\ \E i \in DOMAIN fragments : Len(fragments[i]) > 1
    /\ Len(fragments) > 1

\* C4: after the last page, get_repositories and get_commits return their list
\* when its length equals the reported total, and fail with AssertionError,
\* returning nothing, when it does not.
C4_IntegrityViolation ==
    /\ (request.op = "repositories" /\ resp = "ready" /\ ~repos.has_next) =>
            IF Len(listed) = repos.total
            THEN error = "none" /\ Listed
            ELSE pc = "failed" /\ error = "AssertionError" /\ ~Listed
    /\ (ReadyCommits /\ ~history.has_next) =>
            IF Len(commits) = history.total
            THEN error = "none" /\ Returned
            ELSE pc = "failed" /\ error = "AssertionError" /\ ~Returned

C4_Witness ==
    /\ ReadyCommits
    /\ ~history.has_next
    /\ Len(commits) < history.total
    /\ request.cursor > NoCursor
    /\ error = "AssertionError"

\* The repositories section 4.3 selects: those listed and allowed, or all of
\* those listed when the allow list is empty, less the denied ones.
Selected ==
    (IF allow = {} THEN Range(orgRepos) ELSE Range(orgRepos) \cap allow) \ deny

\* summarize_contributions has returned to main.
Summarized == pc \in {"print", "write", "done"}

\* C5: get_commits is called for selected repositories only and, when
\* summarize_contributions returns, it was called for every one of them.
C5_FilterSemantics ==
    /\ retrieved \subseteq Selected
    /\ pc \in {"commits_first", "commits_next", "fold"} => names = Selected
    /\ Summarized => retrieved = Selected

C5_Witness ==
    /\ pc = "done"
    /\ orgRepos = <<"a", "b", "c">>
    /\ allow = {"a", "b"}
    /\ deny = {"b"}
    /\ retrieved = {"a"}

\* The second example of section 8: no allow list, "c" denied.
C5_WitnessDenyOnly ==
    /\ pc = "done"
    /\ orgRepos = <<"a", "b", "c">>
    /\ allow = {}
    /\ deny = {"c"}
    /\ retrieved = {"a", "b"}

RECURSIVE Flatten(_)
Flatten(lists) == IF lists = <<>> THEN <<>> ELSE Head(lists) \o Flatten(Tail(lists))

\* The histories of the selected repositories, in the order of their names.
SelectedHistories == [i \in 1..Len(Sorted(names)) |-> remoteHist[Sorted(names)[i]]]

\* The lines the commits of seq with the author email e changed.
RECURSIVE ChangesBy(_, _)
ChangesBy(e, seq) ==
    IF seq = <<>> THEN 0
    ELSE (IF Head(seq).email = e THEN Head(seq).additions + Head(seq).deletions ELSE 0)
         + ChangesBy(e, Tail(seq))

\* C6: the ledger summarize_contributions returns has an entry for exactly the
\* author emails of the commits of the selected repositories, and the entry of
\* an email is the sum of additions + deletions over its commits.
C6_AggregationTotals ==
    Summarized =>
        LET all == Flatten(SelectedHistories)
        IN  /\ DOMAIN result = {c.email : c \in Range(all)}
            /\ \A e \in DOMAIN result : result[e] = ChangesBy(e, all)

\* The scenario of section 8: X and Y in the first repository, X in the second.
C6_Witness ==
    /\ pc = "done"
    /\ fragments = <<SubSeq(PoolOrder, 1, 2), SubSeq(PoolOrder, 3, 3)>>
    /\ result = ("x@x" :> 16) @@ ("y" :> 5)

\* The orders of the elements of seq.
Orders(seq) ==
    LET n == Len(seq)
    IN  {[i \in 1..n |-> seq[p[i]]] :
            p \in {q \in [1..n -> 1..n] : \A i, j \in 1..n : i # j => q[i] # q[j]}}

\* Every list of commits that takes the fragments in some order and the
\* commits of each fragment in some order.
RECURSIVE Shuffled(_)
Shuffled(lists) ==
    IF lists = <<>> THEN {<<>>}
    ELSE {first \o rest : first \in Orders(Head(lists)), rest \in Shuffled(Tail(lists))}

Arrangements(lists) == UNION {Shuffled(order) : order \in Orders(lists)}

\* C7: folding the fragments in any order, and the commits of a fragment in
\* any order, gives the ledger the run ended with.
C7_AggregationCommutes ==
    pc = "done" => \A seq \in Arrangements(fragments) : FoldFrom(EmptyMap, seq) = result

C7_Witness ==
    /\ pc = "done"
    /\ Len(fragments) = Cardinality(RepoNames)
    /\ \A i \in DOMAIN fragments : Len(fragments[i]) > 1
    /\ \E i, j \in DOMAIN fragments :
           \E c \in Range(fragments[i]), d \in Range(fragments[j]) :
               i # j /\ c.email = d.email /\ c # d

\* C8: an exception ends the run where it is raised: nothing is retrieved,
\* folded, printed or written after it, and what is printed or written comes
\* from a run that retrieved every selected repository.
C8_FatalAborts ==
    /\ error # "none" => pc = "failed"
    /\ pc = "failed" =>
           error # "none" /\ output = <<>> /\ written = FALSE /\ ~ENABLED Next
    /\ (output # <<>> \/ written) =>
           retrieved = names /\ Len(fragments) = Cardinality(names)

C8_Witness ==
    /\ pc = "failed"
    /\ error \in {"AttributeError", "AssertionError", "TransportError"}
    /\ result # EmptyMap
    /\ todo # <<>>
    /\ output = <<>>

\* C9: when the transport raises, in get_repositories or in get_commits, at
\* any attempt, the run ends there with that error: no sleep follows and no
\* request.
C9_TransportErrorNotRetried ==
    resp = "error" =>
        /\ pc = "failed"
        /\ error = "TransportError"
        /\ slept = 0
        /\ Len(sleeps) = unready
        /\ ~ENABLED Next

C9_Witness ==
    /\ resp = "error"
    /\ request.op = "commits"
    /\ request.cursor > NoCursor
    /\ attempts > 1
    /\ pc = "failed"

\* C10: at no request are there more than RateCeiling requests in the second
\* that ends with it.
C10_RateCeiling == Len(stamps) <= RateCeiling


\* The author names on the commits of seq with the email e.
NamesOf(e, seq) == {c.name : c \in {d \in Range(seq) : d.email = e}}

\* The logins on the commits of seq with the email e that have a user.
LoginsOf(e, seq) ==
    {c.login : c \in {d \in Range(seq) : d.email = e /\ d.login # NoUser}}

\* C11 as stated: after a successful run every email of a commit has a record
\* whose names are the names seen with the email and whose logins are the
\* logins seen with it, the empty set when no commit of the email has a user.
C11_IdentityDetailsAsStated ==
    Summarized =>
        LET all == Flatten(SelectedHistories)
        IN  /\ DOMAIN authors = {c.email : c \in Range(all)}
            /\ \A e \in DOMAIN authors :
                   /\ "names" \in DOMAIN authors[e]
                   /\ authors[e]["names"] = NamesOf(e, all)
                   /\ "login" \in DOMAIN authors[e]
                   /\ authors[e]["login"] = LoginsOf(e, all)

\* C11 as amended: after a successful run every email of a commit has a record
\* whose names are the names seen with the email; the record has a set of
\* logins, the logins seen with the email, when a commit of the email has a
\* user, and no entry for logins when none has.
C11_IdentityDetails ==
    Summarized =>
        LET all == Flatten(SelectedHistories)
        IN  /\ DOMAIN authors = {c.email : c \in Range(all)}
            /\ \A e \in DOMAIN authors :
                   /\ "names" \in DOMAIN authors[e]
                   /\ authors[e]["names"] = NamesOf(e, all)
                   /\ DOMAIN authors[e] \subseteq {"names", "login"}
                   /\ IF LoginsOf(e, all) = {}
                      THEN "login" \notin DOMAIN authors[e]
                      ELSE /\ "login" \in DOMAIN authors[e]
                           /\ authors[e]["login"] = LoginsOf(e, all)

C11_Witness ==
    /\ pc = "done"
    /\ DOMAIN authors = {"x@x", "y"}
    /\ authors["x@x"]["names"] = {"X", "X2"}
    /\ authors["x@x"]["login"] = {"xl"}
    /\ authors["y"]["names"] = {"Y"}
    /\ "login" \notin DOMAIN authors["y"]


\* What section 4.3 selects with the allow list A and the deny list D.
SelectedWith(A, D) ==
    (IF A = {} THEN Range(orgRepos) ELSE Range(orgRepos) \cap A) \ D

\* The names of the filter lists that name no repository of the organization.
Unknown == FilterNames \ Range(orgRepos)

\* The filter of summarize_contributions has run.
Filtered == Listed /\ pc # "filter"

\* C12 as stated: a name that is no repository of the organization changes
\* nothing when it is added to the allow list or to the deny list, also when
\* the allow list is empty without it: the run selects what the lists without
\* the name select, and raises nothing.
C12_FilterMissAsStated ==
    Filtered =>
        \A u \in Unknown :
            /\ names = SelectedWith(allow \ {u}, deny)
            /\ names = SelectedWith(allow, deny \ {u})
            /\ env = "plain" => error = "none"

\* C12 as amended: an unknown name in the deny list changes nothing; an
\* unknown name in the allow list changes nothing when the allow list has
\* another name; an allow list of unknown names only selects no repository.
\* Nothing is raised in either case.
C12_FilterMiss ==
    Filtered =>
        /\ \A u \in Unknown :
               /\ names = SelectedWith(allow, deny \ {u})
               /\ allow \ {u} # {} => names = SelectedWith(allow \ {u}, deny)
        /\ names = SelectedWith(allow \ Unknown, deny \ Unknown)
               \/ (allow # {} /\ allow \subseteq Unknown /\ names = {})
        /\ (allow # {} /\ allow \subseteq Unknown) => names = {}
        /\ env = "plain" => error = "none"
        /\ Summarized => retrieved = names

C12_Witness ==
    /\ pc = "done"
    /\ orgRepos = <<"a", "b">>
    /\ allow = {"a", "u"}
    /\ deny = {"c"}
    /\ retrieved = {"a"}

\* An allow list of one unknown name: nothing is selected, nothing is raised.
C12_WitnessOnlyUnknown ==
    /\ pc = "done"
    /\ orgRepos = <<"a", "b">>
    /\ allow = {"u"}
    /\ deny = {}
    /\ retrieved = {}
    /\ error = "none"


\* main has printed the summary.
Printed == pc \in {"write", "done"}

\* C13: on normal completion main prints exactly one line per identity of the
\* ledger, each with the identity's total, and every line's total is at least
\* the total of the line after it.
C13_RankedOutput ==
    Printed =>
        /\ Len(output) = Cardinality(DOMAIN result)
        /\ {output[i].user : i \in 1..Len(output)} = DOMAIN result
        /\ \A i \in 1..Len(output) : output[i].changes = result[output[i].user]
        /\ \A i \in 1..(Len(output) - 1) : output[i].changes >= output[i + 1].changes

\* The ledger got "y" before "x@x", and the larger total of "x@x" is printed
\* first.
C13_Witness ==
    /\ pc = "done"
    /\ keys = <<"y", "x@x">>
    /\ Len(output) = 2
    /\ output[1] = [user |-> "x@x", changes |-> 16]
    /\ output[2] = [user |-> "y", changes |-> 5]


\* The statements that issue a request.
RequestPcs == {"repos_first", "repos_next", "commits_first", "commits_next"}

\* C14: a request is issued by get_repositories and get_commits only; the
\* first request of a call carries no cursor; a later request is issued only
\* while the most recently accepted page reports has_next, and it carries that
\* page's end_cursor, which is larger than the cursor of the request before it
\* unless the request repeats one that was answered unready.
C14_CursorDiscipline ==
    [][/\ wireVars' # wireVars => pc \in RequestPcs
       /\ pc = "repos_first" =>
              request' = [op |-> "repositories", name |-> "", cursor |-> NoCursor]
       /\ pc = "repos_next" =>
              /\ repos.has_next
              /\ request' = [op |-> "repositories", name |-> "",
                             cursor |-> repos.end_cursor]
              /\ request.op = "repositories"
              /\ request'.cursor > request.cursor
       /\ pc = "commits_first" =>
              request' = [op |-> "commits", name |-> name, cursor |-> NoCursor]
       /\ pc = "commits_next" =>
              /\ history.has_next
              /\ request' = [op |-> "commits", name |-> name,
                             cursor |-> history.end_cursor]
              /\ request.op = "commits" /\ request.name = name
              /\ request'.cursor >= request.cursor
              /\ request'.cursor = request.cursor => resp # "ready"
      ]_vars

\* The second page of a history was requested twice with the end_cursor of
\* the first, and its has_next = false ended the requests.
C14_Witness ==
    /\ pc = "fold"
    /\ request = [op |-> "commits", name |-> "a", cursor |-> 1]
    /\ attempts = 2
    /\ ~history.has_next
    /\ Len(commits) = 2

\* The third page of the listing was requested with the end_cursor of the
\* second.
C14_WitnessListing ==
    /\ pc = "filter"
    /\ request = [op |-> "repositories", name |-> "", cursor |-> 2]
    /\ ~repos.has_next
    /\ Len(listed) = 3


\* The answers without a branch: no "repository" member, or a repository
\* whose defaultBranchRef is absent or null.
NoBranch == {"repo_absent", "branch_absent", "branch_null"}

\* get_commits is between two requests for the same page.
Retrying == pc \in {"commits_first", "commits_next"} /\ request.op = "commits"
            /\ resp \in NoBranch

\* The sleeps made for the current page of a history are 2, 4, 8, ... seconds,
\* one per unready answer; the last answer, if unready, was followed by the
\* last of them, and by none otherwise.
SleepsOnSchedule ==
    request.op = "commits" =>
        /\ sleeps = [i \in 1..unready |-> Pow(2, i)]
        /\ IF resp \in NoBranch
           THEN /\ unready = attempts
                /\ slept = Pow(2, attempts)
                /\ since = TicksPerSecond
           ELSE /\ slept = 0
                /\ resp = "ready" => unready = attempts - 1

\* C15: the attempt-th unready answer for a page of get_commits is followed
\* by a sleep of 2^attempt seconds, and the request issued after the sleep is
\* the request that was answered unready; the sleeps for a page are 2, 4, 8,
\* ..., none before the page's first request and none after a ready answer.
C15_BackoffSchedule ==
    [][/\ SleepsOnSchedule'
       /\ Retrying => request' = request /\ attempts' = attempts + 1
       /\ (pc \in {"commits_first", "commits_next"} /\ ~Retrying) =>
              attempts' = 1 /\ Len(sleeps') <= 1
      ]_vars

\* A later page answered unready three times and then ready.
C15_Witness ==
    /\ request.op = "commits"
    /\ request.cursor > NoCursor
    /\ resp = "ready"
    /\ attempts = 4
    /\ sleeps = <<2, 4, 8>>
    /\ slept = 0
    /\ error = "none"


\* C16: every page of a history, the first or a later one, has a retry loop
\* of its own: the first request of a page is attempt 1 whatever the pages
\* before it took, the attempt number is the number of requests issued for the
\* page, an unready answer to an attempt before the 7th is followed by its
\* sleep and a retry, and no page gets more than 7 requests.
C16_BackoffPerPage ==
    [][/\ pc \in {"commits_first", "commits_next"} =>
           /\ ~Retrying => number' = 1
           /\ number' = attempts'
           /\ attempts' <= MaxAttempts
           /\ (resp' \in NoBranch /\ attempts' < MaxAttempts) =>
                  /\ pc' = pc
                  /\ error' = "none"
                  /\ slept' = Pow(2, attempts')
                  /\ Len(sleeps') = attempts'
      ]_vars

\* The second page of a history was answered ready at its 7th request.
C16_Witness ==
    /\ request.op = "commits"
    /\ request.cursor = 1
    /\ number = MaxAttempts
    /\ attempts = MaxAttempts
    /\ resp = "ready"
    /\ sleeps = <<2, 4, 8, 16, 32, 64>>
    /\ pc = "fold"


\* The answers that lack the branch at either level: "repository" absent or
\* null, or its defaultBranchRef absent or null.
Unmaterialized == {"repo_absent", "repo_null", "branch_absent", "branch_null"}

\* C17: an answer of the endpoint to get_commits that lacks the branch at
\* either level is taken for the unready signal: when it is not the 7th for
\* its page, nothing is raised, the sleep is made and the request is about to
\* be repeated; a ready answer is parsed as a page.
C17_UnreadyClassification ==
    request.op = "commits" =>
        /\ (resp \in Unmaterialized /\ attempts < MaxAttempts) =>
               /\ error = "none"
               /\ pc \in {"commits_first", "commits_next"}
               /\ unready = attempts
               /\ slept = Pow(2, attempts)
        /\ resp = "ready" =>
               /\ error \in {"none", "AssertionError"}
               /\ slept = 0
               /\ history.end_cursor > request.cursor


\* C18: from one step of the run to the next, the fold steps among them, no
\* key leaves the totals and no total decreases, no key leaves the identity
\* details, and no name or login leaves the record of an identity.
C18_MonotoneLedger ==
    [][/\ \A e \in DOMAIN result :
              e \in DOMAIN result' /\ result'[e] >= result[e]
       /\ \A e \in DOMAIN authors :
              /\ e \in DOMAIN authors'
              /\ \A key \in DOMAIN authors[e] :
                     /\ key \in DOMAIN authors'[e]
                     /\ authors[e][key] \subseteq authors'[e][key]
       /\ pc = "fold" =>
              /\ DOMAIN result' = DOMAIN result \cup {commits[k + 1].email}
              /\ result'[commits[k + 1].email] >=
                     commits[k + 1].additions + commits[k + 1].deletions
      ]_vars

\* The identity "x@x" was met twice, the second time without a user: its
\* total and its names have grown and its login is kept.
C18_Witness ==
    /\ k = Len(commits)
    /\ Len(commits) > 0
    /\ commits[k].sha = "s3"
    /\ "x@x" \in DOMAIN result
    /\ result["x@x"] = 16
    /\ authors["x@x"]["names"] = {"X", "X2"}
    /\ "login" \in DOMAIN authors["x@x"]
    /\ authors["x@x"]["login"] = {"xl"}


\* The commits folded so far: the lists get_commits returned, less the
\* commits of the last one that the fold has not reached.
Folded ==
    LET all == Flatten(fragments)
    IN  IF pc = "fold" THEN SubSeq(all, 1, Len(all) - (Len(commits) - k)) ELSE all

\* C19: after every folded commit the totals and the identity details have
\* the same keys, and every record of the identity details has a set of names
\* that is not empty.
C19_LedgerAligned ==
    /\ DOMAIN result = DOMAIN authors
    /\ \A e \in DOMAIN authors :
           "names" \in DOMAIN authors[e] /\ authors[e]["names"] # {}
    /\ DOMAIN result = Range(keys)
    /\ (pc = "fold" \/ Summarized) =>
           DOMAIN result = {c.email : c \in Range(Folded)}

\* Between the two commits of a list: the first, of an author without a user,
\* is folded and the second is not.
C19_Witness ==
    /\ pc = "fold"
    /\ k = 1
    /\ Len(commits) = 2
    /\ commits[1].sha = "s2"
    /\ DOMAIN result = {"y"}
    /\ DOMAIN authors = {"y"}
    /\ authors["y"]["names"] = {"Y"}

====
